---------------------------- MODULE Spec2Model ----------------------------
(***************************************************************************)
(* A model of server.c: a sequential HTTP/1.1 server that frames a request *)
(* from a client socket, parses its request-line, resolves the target      *)
(* under the server's root and answers with a redirect, a directory        *)
(* listing, the output of php-cgi, a static file or an error page.         *)
(*                                                                         *)
(* C strings are sequences of one-character strings; a pointer into a      *)
(* string is a 1-based index, and 0 stands for NULL.                       *)
(***************************************************************************)
EXTENDS Integers, Sequences, FiniteSets, TLC

(***************************************************************************)
(* Limits and sizes of the program.                                        *)
(***************************************************************************)
LimitRequestFields == 50
LimitRequestFieldSize == 4094
LimitRequestLine == 8190
BYTES == 512

\* Width in bits of size_t in the model.  The program's size_t is wider; the
\* model keeps the wrap-around of unsigned arithmetic at a width that every
\* length occurring in it fits in.
SizeBits == 16
SizeMod == 2 ^ SizeBits

\* Number of descriptor slots accept() can hand out in the model; a client
\* descriptor is the number of its slot.
MaxFds == 3

(***************************************************************************)
(* Characters and string constants.                                        *)
(***************************************************************************)
CR == "\r"
LF == "\n"
SP == " "
NUL == "NUL"
CRLF == <<CR, LF>>
CRLFCRLF == <<CR, LF, CR, LF>>

Min(a, b) == IF a < b THEN a ELSE b
Max(a, b) == IF a > b THEN a ELSE b

Uppers == <<"A", "B", "C", "D", "E", "F", "G", "H", "I", "J", "K", "L", "M",
            "N", "O", "P", "Q", "R", "S", "T", "U", "V", "W", "X", "Y", "Z">>
Lowers == <<"a", "b", "c", "d", "e", "f", "g", "h", "i", "j", "k", "l", "m",
            "n", "o", "p", "q", "r", "s", "t", "u", "v", "w", "x", "y", "z">>

\* tolower(3), as strcasecmp applies it to each character.
ToLower(c) ==
    IF \E i \in 1..26 : Uppers[i] = c
    THEN Lowers[CHOOSE i \in 1..26 : Uppers[i] = c]
    ELSE c

LowerStr(s) == [i \in 1..Len(s) |-> ToLower(s[i])]

(***************************************************************************)
(* The C library's string functions.                                       *)
(***************************************************************************)
\* Whether needle occurs in s at index i.
MatchAt(s, needle, i) ==
    /\ i >= 1
    /\ i + Len(needle) - 1 <= Len(s)
    /\ \A k \in 1..Len(needle) : s[i + k - 1] = needle[k]

\* strlen(3) of a buffer: the characters before the first NUL.
strlen(t) ==
    IF \E i \in 1..Len(t) : t[i] = NUL
    THEN (CHOOSE i \in 1..Len(t) : t[i] = NUL /\ \A k \in 1..(i - 1) : t[k] # NUL) - 1
    ELSE Len(t)

\* The C string a buffer holds.
CStr(t) == SubSeq(t, 1, strlen(t))

\* strchr(3): index of the first c in s, 0 when there is none.
strchr(s, c) ==
    IF \E i \in 1..Len(s) : s[i] = c
    THEN CHOOSE i \in 1..Len(s) : s[i] = c /\ \A k \in 1..(i - 1) : s[k] # c
    ELSE 0

\* strrchr(3): index of the last c in s, 0 when there is none.
strrchr(s, c) ==
    IF \E i \in 1..Len(s) : s[i] = c
    THEN CHOOSE i \in 1..Len(s) : s[i] = c /\ \A k \in (i + 1)..Len(s) : s[k] # c
    ELSE 0

\* The end of the C string that starts at index from of a buffer: the index
\* of its terminator, which is past the buffer when no NUL is in it.
endOf(s, from) ==
    IF \E i \in from..Len(s) : s[i] = NUL
    THEN CHOOSE i \in from..Len(s) : s[i] = NUL /\ \A k \in from..(i - 1) : s[k] # NUL
    ELSE Len(s) + 1

\* strstr(3) on the string starting at index from: index of the first
\* occurrence of needle at or after from and before the string's end, 0
\* when there is none.
strstr(s, from, needle) ==
    LET last == endOf(s, from) - Len(needle) IN
    IF \E i \in from..last : MatchAt(s, needle, i)
    THEN CHOOSE i \in from..last :
            MatchAt(s, needle, i) /\ \A k \in from..(i - 1) : ~MatchAt(s, needle, k)
    ELSE 0

\* strncpy(dst, s + from - 1, n) followed by dst[n] = '\0': the at most n
\* characters of s from index from on.
strncpy(s, from, n) == SubSeq(s, from, Min(from + n - 1, Len(s)))

\* strcasecmp(a, b) == 0
strcaseeq(a, b) == LowerStr(a) = LowerStr(b)

(***************************************************************************)
(* Bytes.  A character is a one-character string; NUL and the bytes        *)
(* outside printable ASCII have names, and the literal pieces of the       *)
(* program's HTML templates are kept whole.                                *)
(***************************************************************************)
HexDigits == <<"0", "1", "2", "3", "4", "5", "6", "7", "8", "9",
               "a", "b", "c", "d", "e", "f">>

Ascii == <<" ", "!", "\"", "#", "$", "%", "&", "'", "(", ")", "*", "+", ",",
           "-", ".", "/", "0", "1", "2", "3", "4", "5", "6", "7", "8", "9",
           ":", ";", "<", "=", ">", "?", "@", "A", "B", "C", "D", "E", "F",
           "G", "H", "I", "J", "K", "L", "M", "N", "O", "P", "Q", "R", "S",
           "T", "U", "V", "W", "X", "Y", "Z", "[", "\\", "]", "^", "_", "\\x60",
           "a", "b", "c", "d", "e", "f", "g", "h", "i", "j", "k", "l", "m",
           "n", "o", "p", "q", "r", "s", "t", "u", "v", "w", "x", "y", "z",
           "{", "|", "}", "~">>

\* The character with byte value v, 0 <= v <= 255.
Chr(v) ==
    IF v = 0 THEN NUL
    ELSE IF v = 13 THEN CR
    ELSE IF v = 10 THEN LF
    ELSE IF v >= 32 /\ v <= 126 THEN Ascii[v - 31]
    ELSE "\\x" \o HexDigits[(v \div 16) + 1] \o HexDigits[(v % 16) + 1]

\* The value of a hexadecimal digit, -1 for any other character.
HexVal(c) ==
    IF \E i \in 1..16 : HexDigits[i] = ToLower(c)
    THEN (CHOOSE i \in 1..16 : HexDigits[i] = ToLower(c)) - 1
    ELSE -1

\* (char) strtol(octet, NULL, 16) for a two-character octet: the digits up
\* to the first character that is not a hexadecimal digit.
strtol16(c1, c2) ==
    IF HexVal(c1) < 0 THEN 0
    ELSE IF HexVal(c2) < 0 THEN HexVal(c1)
    ELSE 16 * HexVal(c1) + HexVal(c2)

(***************************************************************************)
(* reason(), respond() and error().                                        *)
(***************************************************************************)
NoPhrase == "(null)"

reason(code) ==
    CASE code = 200 -> "OK"
      [] code = 301 -> "Moved Permanently"
      [] code = 400 -> "Bad Request"
      [] code = 403 -> "Forbidden"
      [] code = 404 -> "Not Found"
      [] code = 405 -> "Method Not Allowed"
      [] code = 414 -> "Request-URI Too Long"
      [] code = 418 -> "I'm a teapot"
      [] code = 500 -> "Internal Server Error"
      [] code = 501 -> "Not Implemented"
      [] code = 505 -> "HTTP Version Not Supported"
      [] OTHER -> NoPhrase

\* The value of an int given for an unsigned short parameter.
toUShort(code) == code % (2 ^ 16)

\* The decimal digits of a number that is not negative, as "%i" prints
\* them.
RECURSIVE CodeStr(_)
CodeStr(code) ==
    LET digit == <<"0", "1", "2", "3", "4", "5", "6", "7", "8", "9">>[(code % 10) + 1] IN
    IF code < 10 THEN digit ELSE CodeStr(code \div 10) \o digit

\* The outcomes of respond()'s four writes (status-line, headers, CRLF,
\* body): the number of them that succeed before one fails; AllWritten when
\* none fails.
AllWritten == Cardinality({"status-line", "headers", "crlf", "body"})
WriteOutcomes == 0..AllWritten

\* statusLine without the reason phrase.
statusLineBare(code, phrase) == "HTTP/1.1 " \o CodeStr(code) \o "\r\n"

\* The status-line respond() prints.
statusLine(code, phrase) == "HTTP/1.1 " \o CodeStr(code) \o " " \o phrase \o "\r\n"

\* A call of respond() or error() that returned at once, having no reason
\* phrase for the code: nothing was written.
unanswered(code, headers, body, length) ==
    [code |-> code, phrase |-> NoPhrase, headers |-> headers, body |-> body,
     length |-> length, wrote |-> 0, logged |-> FALSE, wire |-> <<>>]

\* respond(code, headers, body, length) on a connection that holds the
\* calls made so far: one more call, of which the first io writes reach the
\* client, and none for a code without a reason phrase.  wire is what was
\* written, write after write; the last write is of length bytes at body.
respond(sent, code, headers, body, length, io) ==
    LET phrase == reason(toUShort(code)) IN
    IF phrase = NoPhrase
    THEN Append(sent, unanswered(code, headers, body, length))
    ELSE Append(sent, [code |-> code, phrase |-> phrase, headers |-> headers,
                       body |-> body, length |-> length, wrote |-> io,
                       logged |-> (io = AllWritten),
                       wire |-> SubSeq(<<statusLine(code, phrase), headers, CRLF, body>>,
                                       1, io)])

ContentTypeHtml == <<"C", "o", "n", "t", "e", "n", "t", "-", "T", "y", "p", "e", ":", " ",
                     "t", "e", "x", "t", "/", "h", "t", "m", "l", CR, LF>>

ErrorTemplate == "<html><head><title>%i %s</title></head><body><h1>%i %s</h1></body></html>"

\* The rendered error page, in pieces.
ErrorBody(code) ==
    <<"<html><head><title>", CodeStr(code), " ", reason(code),
      "</title></head><body><h1>", CodeStr(code), " ", reason(code),
      "</h1></body></html>">>

\* What sprintf returns for the error page: the template without its four
\* directives, plus the code and the phrase twice.
ErrorLength(code) ==
    Len(ErrorTemplate) - 4 * Len("%i") + 2 * Len(CodeStr(code)) + 2 * Len(reason(code))

\* error with the page written twice: two calls of respond().
errorAgain(sent, code, io) ==
    respond(respond(sent, toUShort(code), ContentTypeHtml, ErrorBody(toUShort(code)),
                    ErrorLength(toUShort(code)), io),
            toUShort(code), ContentTypeHtml, ErrorBody(toUShort(code)),
            ErrorLength(toUShort(code)), io)

\* error(code): nothing for a code without a reason phrase, else the page
\* that names the code and the phrase, through respond().
error(sent, code, io) ==
    IF reason(toUShort(code)) = NoPhrase
    THEN Append(sent, unanswered(toUShort(code), <<>>, <<>>, 0))
    ELSE respond(sent, toUShort(code), ContentTypeHtml, ErrorBody(toUShort(code)),
                 ErrorLength(toUShort(code)), io)

LocationPrefix == <<"L", "o", "c", "a", "t", "i", "o", "n", ":", " ">>

\* redirect(uri): a 301 with "Location: <uri>\r\n".
redirect(sent, uri, io) ==
    respond(sent, 301, LocationPrefix \o uri \o CRLF, <<>>, 0, io)

(***************************************************************************)
(* urldecode().                                                            *)
(***************************************************************************)
IsSpace(c) == c \in {SP, CR, LF, Chr(9), Chr(11), Chr(12)}

\* The value strtol gives one hexadecimal digit, 0 when c is none.
Digit16(c) == IF HexVal(c) < 0 THEN 0 ELSE HexVal(c)

\* (char) strtol(octet, NULL, 16) as a byte value, with strtol's leading
\* white space and sign.
octet(c1, c2) ==
    IF IsSpace(c1) \/ c1 = "+" THEN Digit16(c2)
    ELSE IF c1 = "-" THEN (0 - Digit16(c2)) % 256
    ELSE strtol16(c1, c2)

\* The characters the loop of urldecode writes to t from s[i] on (i is
\* 1-based): "%" with two characters after it becomes the octet, "+" a
\* space, anything else itself.
\* The byte at s[i - 1] in C: past the characters of s lies its
\* terminator, and past that what is not the string's.
byteAt(s, i) == IF i <= Len(s) THEN s[i] ELSE NUL

\* convertible with no test of what follows the "%".
convertibleAnywhere(s, i) == s[i] = "%"

\* The test for an octet at s[i - 1]: s[i] == '%' && i < n - 2.
convertible(s, i) == s[i] = "%" /\ i - 1 < Len(s) - 2

RECURSIVE urldecodeFrom(_, _)
urldecodeFrom(s, i) ==
    IF i > Len(s) THEN <<>>
    ELSE IF convertible(s, i)
         THEN <<Chr(octet(byteAt(s, i + 1), byteAt(s, i + 2)))>> \o urldecodeFrom(s, i + 3)
    ELSE IF s[i] = "+"
         THEN <<SP>> \o urldecodeFrom(s, i + 1)
    ELSE <<s[i]>> \o urldecodeFrom(s, i + 1)

\* The indexes of s (1-based) that the loop reads from s[i] on.
RECURSIVE urldecodeReads(_, _)
urldecodeReads(s, i) ==
    IF i > Len(s) THEN {}
    ELSE IF convertible(s, i)
         THEN {i, i + 1, i + 2} \cup urldecodeReads(s, i + 3)
    ELSE {i} \cup urldecodeReads(s, i + 1)

\* urldecode(s): the zeroed buffer t after the loop, up to its last written
\* character.
urldecode(s) == urldecodeFrom(s, 1)

(***************************************************************************)
(* parse().                                                                *)
(***************************************************************************)
GET == <<"G", "E", "T">>
HTTP11CRLF == <<"H", "T", "T", "P", "/", "1", ".", "1", CR, LF>>

\* ParseErr with the status 414 for every malformed line.
ParseErrTooLong(c) == [kind |-> "err", code |-> 414, abs_path |-> <<>>, query |-> <<>>]

ParseErr(c) == [kind |-> "err", code |-> c, abs_path |-> <<>>, query |-> <<>>]
ParseCrash == [kind |-> "crash", code |-> 0, abs_path |-> <<>>, query |-> <<>>]
ParseOk(a, q) == [kind |-> "ok", code |-> 0, abs_path |-> a, query |-> q]

\* The query parse copies from the line: strncpy(query, queryBegins + 1,
\* secondSpace - queryBegins), then query[secondSpace - queryBegins] = '\0'.
copyQuery(l, queryBegins, secondSpace) ==
    strncpy(l, queryBegins + 1, secondSpace - queryBegins)

\* parse() from the check of the request-target on; request is the target
\* it extracted, query the caller's buffer as it was.
parseTarget(l, firstSpace, secondSpace, request, query) ==
    IF request = <<>> \/ request[1] # "/"
    THEN ParseErr(501)
    ELSE IF strchr(request, "\"") # 0
    THEN ParseErr(400)
    ELSE LET clrf == strstr(l, 1, CRLF) IN
         IF clrf = 0
         THEN ParseErr(400)
         ELSE LET version == strncpy(l, secondSpace + 1, clrf - secondSpace + 2) IN
              IF version # HTTP11CRLF
              THEN ParseErr(505)
              ELSE IF strchr(request, "?") # 0
              THEN LET queryBegins == strchr(l, "?") IN
                   ParseOk(strncpy(l, firstSpace + 1, queryBegins - firstSpace - 1),
                           copyQuery(l, queryBegins, secondSpace))
              ELSE ParseOk(request, query)

\* The outcomes of parse(line, abs_path, query).  With a single space in the
\* line requestSize is -1: request is an array of no element and strncpy is
\* asked for (size_t) -1 characters, which is undefined; the process is
\* killed, or goes on with an empty request-target.
parse(l, query) ==
    LET firstSpace == strchr(l, SP) IN
    IF firstSpace = 0
    THEN {ParseErr(400)}
    ELSE LET method == strncpy(l, 1, firstSpace - 1) IN
         IF method # GET
         THEN {ParseErr(405)}
         ELSE LET secondSpace == strrchr(l, SP)
                  requestSize == secondSpace - firstSpace - 1
              IN  IF requestSize < 0
                  THEN {ParseCrash, parseTarget(l, firstSpace, secondSpace, <<>>, query)}
                  ELSE {parseTarget(l, firstSpace, secondSpace,
                                    strncpy(l, firstSpace + 1, requestSize), query)}

(***************************************************************************)
(* lookup().                                                               *)
(***************************************************************************)
NoType == <<>>
TextCss == <<"t", "e", "x", "t", "/", "c", "s", "s">>
TextHtml == <<"t", "e", "x", "t", "/", "h", "t", "m", "l">>
ImageGif == <<"i", "m", "a", "g", "e", "/", "g", "i", "f">>
ImageIco == <<"i", "m", "a", "g", "e", "/", "x", "-", "i", "c", "o">>
ImageJpeg == <<"i", "m", "a", "g", "e", "/", "j", "p", "e", "g">>
TextJavascript == <<"t", "e", "x", "t", "/", "j", "a", "v", "a", "s", "c", "r", "i", "p", "t">>
TextPhp == <<"t", "e", "x", "t", "/", "x", "-", "p", "h", "p">>
ImagePng == <<"i", "m", "a", "g", "e", "/", "p", "n", "g">>

\* The chain of strcasecmp tests on the extension.
typeOf(ext) ==
    IF strcaseeq(ext, <<".", "c", "s", "s">>) THEN TextCss
    ELSE IF strcaseeq(ext, <<".", "h", "t", "m", "l">>) THEN TextHtml
    ELSE IF strcaseeq(ext, <<".", "g", "i", "f">>) THEN ImageGif
    ELSE IF strcaseeq(ext, <<".", "i", "c", "o">>) THEN ImageIco
    ELSE IF strcaseeq(ext, <<".", "j", "p", "g">>) THEN ImageJpeg
    ELSE IF strcaseeq(ext, <<".", "j", "s">>) THEN TextJavascript
    ELSE IF strcaseeq(ext, <<".", "p", "h", "p">>) THEN TextPhp
    ELSE IF strcaseeq(ext, <<".", "p", "n", "g">>) THEN ImagePng
    ELSE NoType

\* The outcomes of lookup(path).  Without a "." in path, strrchr returns
\* NULL and strcasecmp reads through it, which is undefined: the process is
\* killed, or no test matches.
lookup(p) ==
    LET ext == strrchr(p, ".") IN
    IF ext = 0
    THEN {[kind |-> "crash", type |-> NoType], [kind |-> "ok", type |-> NoType]}
    ELSE {[kind |-> "ok", type |-> typeOf(SubSeq(p, ext, Len(p)))]}

(***************************************************************************)
(* load().                                                                 *)
(***************************************************************************)
\* A stream to load: a regular file can be sought, a pipe cannot; data is
\* what reading it to its end gives, and err says that reading fails.
RegularFile(data, err) == [seekable |-> TRUE, data |-> data, err |-> err]
Pipe(data) == [seekable |-> FALSE, data |-> data, err |-> FALSE]

\* *length = ftell(file) after fseek(file, 0, SEEK_END): the size of a
\* regular file; on a pipe ftell fails with -1, stored in a size_t.
loadLength(file) ==
    IF file.seekable THEN Len(file.data) % SizeMod ELSE (0 - 1) % SizeMod

\* The bytes fread(buffer, *length, 1, file) stores: none when reading
\* fails, else what the stream holds, at most *length of it.  The result of
\* fread is not looked at.
freadBytes(file, length) ==
    IF file.err THEN <<>> ELSE SubSeq(file.data, 1, Min(length, Len(file.data)))

\* The outcomes of load(file, &content, &length).  oom: malloc returns NULL.
\* fill: the value of a byte of the buffer that was never written; tail:
\* the memory after the buffer.  content is the memory at the buffer.  Bytes
\* stored beyond the malloc'ed size overflow the heap, which is undefined:
\* the process is killed, or the bytes lie there followed by tail.
load(file, oom, fill, tail) ==
    LET length == loadLength(file)
        size == (length + 1) % SizeMod
        got == freadBytes(file, length)
    IN  IF oom
        THEN {[kind |-> "false", content |-> <<>>, length |-> 0]}
        ELSE IF Len(got) > size
        THEN {[kind |-> "crash", content |-> <<>>, length |-> 0],
              [kind |-> "true", content |-> got \o tail, length |-> length]}
        ELSE {[kind |-> "true",
               content |-> got \o [i \in 1..(size - Len(got)) |-> fill] \o tail,
               length |-> length]}

(***************************************************************************)
(* htmlspecialchars().                                                     *)
(***************************************************************************)
entity(c) ==
    CASE c = "&" -> <<"&", "a", "m", "p", ";">>
      [] c = "\"" -> <<"&", "q", "u", "o", "t", ";">>
      [] c = "'" -> <<"&", "#", "0", "3", "9", ";">>
      [] c = "<" -> <<"&", "l", "t", ";">>
      [] c = ">" -> <<"&", "g", "t", ";">>
      [] OTHER -> <<c>>

RECURSIVE htmlspecialchars(_)
htmlspecialchars(s) ==
    IF s = <<>> THEN <<>> ELSE entity(Head(s)) \o htmlspecialchars(Tail(s))

(***************************************************************************)
(* The inputs of the model: the files under the server's root, the         *)
(* requests clients send, what php-cgi prints, and the contents of memory  *)
(* the program reads without having written it.                            *)
(***************************************************************************)
Slash == <<"/">>
IndexPhp == <<"/", "i", "n", "d", "e", "x", ".", "p", "h", "p">>
IndexHtml == <<"/", "i", "n", "d", "e", "x", ".", "h", "t", "m", "l">>
DirD == <<"/", "d">>
DirE == <<"/", "e">>
DirX == <<"/", "x">>
FileXyz == <<"/", "s", ".", "x", "y", "z">>
FileReadme == <<"/", "R", "E", "A", "D", "M", "E">>
FilePhp == <<"/", "a", "p", "p", ".", "p", "h", "p">>
FileCss == <<"/", "p", ".", "c", "s", "s">>

Dir(ok, names) == [kind |-> "dir", ok |-> ok, data |-> <<>>, names |-> names]
File(ok, data) == [kind |-> "file", ok |-> ok, data |-> data, names |-> <<>>]
NoNode == [kind |-> "none", ok |-> FALSE, data |-> <<>>, names |-> <<>>]

\* The tree under the root: the path of each file from the root, whether the
\* server may read it (and search it, for a directory), the contents of a
\* regular file and the names scandir gives for a directory.
FsPaths == {Slash, IndexHtml, DirD, DirE, DirE \o IndexPhp, DirX,
            FileXyz, FileReadme, FilePhp, FileCss}

Fs(p) ==
    CASE p = Slash -> Dir(TRUE, <<>>)
      [] p = IndexHtml -> File(TRUE, <<"<", "h", "1", ">", "h", "i", "<", "/", "h", "1", ">">>)
      [] p = DirD -> Dir(TRUE, << <<".">>, <<".", ".">>, <<"a", "&", "b">> >>)
      [] p = DirE -> Dir(TRUE, <<>>)
      [] p = DirE \o IndexPhp -> File(TRUE, <<"<", "?", "p", "h", "p", " ", "?", ">">>)
      [] p = DirX -> Dir(FALSE, <<>>)
      [] p = FileXyz -> File(TRUE, <<"x", "y", "z">>)
      [] p = FileReadme -> File(TRUE, <<"r", "e", "a", "d">>)
      [] p = FilePhp -> File(TRUE, <<"<", "?", "p", "h", "p", " ", "?", ">">>)
      [] p = FileCss -> File(FALSE, <<"b", "o", "d", "y", "{", "}">>)
      [] OTHER -> NoNode

\* The roots start() may be given, as realpath returns them.
RootSet == {<<"/", "s", "r", "v">>, <<"/", "w", ".", "d">>}

Line(method, target, version) == method \o <<SP>> \o target \o <<SP>> \o version

POST == <<"P", "O", "S", "T">>
HTTP11 == <<"H", "T", "T", "P", "/", "1", ".", "1">>
HTTP10 == <<"H", "T", "T", "P", "/", "1", ".", "0">>

\* Request-targets of well-formed requests.
Targets ==
    {Slash, DirD, DirD \o Slash, DirE, DirE \o Slash, DirX \o Slash, FileXyz, FileReadme,
     FilePhp, FilePhp \o <<"?", "i", "d", "=", "7">>, FileCss, IndexHtml,
     <<"/", "n", "o", "p", "e">>, <<"/", "a", "/", "b", "?", "x", "=", "1">>,
     <<"/", "%", "6", "4">>, DirD \o <<"?", "x">>, <<"/", "a", " ", "b">>}

\* Request-lines, without their CRLF.
RequestLines ==
    {Line(GET, t, HTTP11) : t \in Targets}
    \cup {Line(POST, Slash, HTTP11), Line(GET, Slash, HTTP10),
          Line(<<"g", "e", "t">>, Slash, HTTP11),
          Line(GET, <<"x">>, HTTP11), Line(GET, <<"/", "\"">>, HTTP11),
          Line(GET, <<"x", "\"">>, HTTP10), Line(GET, <<"/", "\"">>, HTTP10),
          Line(GET, <<>>, HTTP11),
          GET, POST, GET \o <<SP>> \o Slash, POST \o <<SP>> \o Slash}

\* Runs of the character "a", each kept as one element of a string: a
\* request of thousands of bytes is a few elements long.  No run is longer
\* than the buffer of one read().
RunWidth == [r \in {"a{512}", "a{494}", "a{495}", "a{506}", "a{507}"} |->
               CASE r = "a{512}" -> 512
                 [] r = "a{494}" -> 494
                 [] r = "a{495}" -> 495
                 [] r = "a{506}" -> 506
                 [] r = "a{507}" -> 507]

\* n runs of 512 "a".
Runs(n) == [i \in 1..n |-> "a{512}"]

\* n header fields "H:" with the value v.
Fields(n, v) == [i \in 1..(n * (Len(v) + 4)) |->
                    (<<"H", ":">> \o v \o CRLF)[((i - 1) % (Len(v) + 4)) + 1]]

\* Requests at the limits: a request-line of LimitRequestLine bytes and one
\* of a byte more, a header field of LimitRequestFieldSize bytes and one of a
\* byte more (each counted with its CRLF).
LongStreams ==
    {Line(GET, Slash \o Runs(15) \o <<"a{494}">>, HTTP11) \o CRLFCRLF,
     Line(GET, Slash \o Runs(15) \o <<"a{495}">>, HTTP11) \o CRLFCRLF,
     Line(GET, Slash, HTTP11) \o CRLF \o <<"H", ":">> \o Runs(7) \o <<"a{506}">> \o CRLFCRLF,
     Line(GET, Slash, HTTP11) \o CRLF \o <<"H", ":">> \o Runs(7) \o <<"a{507}">> \o CRLFCRLF}

\* What a client sends before it closes its end: a request-line with the
\* blank line after it, with a header field, with bytes after the blank
\* line, or cut short.
StreamSet ==
    {l \o CRLFCRLF : l \in RequestLines}
    \cup {Line(GET, Slash, HTTP11) \o CRLF \o <<"H", ":", " ", "v">> \o CRLFCRLF,
          Line(GET, Slash, HTTP11) \o CRLFCRLF \o <<"z", "z">>,
          Line(GET, Slash, HTTP11) \o CRLF,
          Line(GET, Slash, HTTP11),
          CRLFCRLF,
          <<>>}
    \cup LongStreams
    \cup {Runs((LimitRequestLine + LimitRequestFields * LimitRequestFieldSize + 4) \div BYTES + 1)}
    \cup {Line(GET, Slash, HTTP11) \o CRLF \o Fields(LimitRequestFields, <<"a{506}">>) \o CRLF,
          Line(GET, Slash, HTTP11) \o CRLF
              \o Fields(LimitRequestFields + 1, <<"a{506}">>) \o CRLF,
          Line(GET, Slash, HTTP11) \o CRLF
              \o Fields(LimitRequestFields + 2, Runs(7) \o <<"a{506}">>) \o CRLF,
          Line(GET, Slash, HTTP11) \o CRLF \o <<NUL>> \o Runs(8) \o CRLFCRLF,
          Line(GET, Slash, HTTP11) \o CRLF \o <<NUL, "a", "a", "a">> \o CRLFCRLF}

\* What php-cgi prints.
ScriptOutputs ==
    {<<"C", "o", "n", "t", "e", "n", "t", "-", "T", "y", "p", "e", ":", " ",
       "t", "e", "x", "t", "/", "p", "l", "a", "i", "n", CR, LF, CR, LF,
       "h", "e", "l", "l", "o">>,
     <<"X", ":", "y", CR, LF, CR, LF, "a", CR, LF, CR, LF, "b">>,
     <<"h", "i">>,
     CRLFCRLF,
     <<>>}

\* Values of a byte that was never written, and of the memory after a
\* buffer.
FillBytes == {NUL, "#"}
Tails == {<<>>, <<"#">>}

\* Contents of main's query array before anything is stored in it.
StackGarbage == {<<>>, <<"#">>}

(***************************************************************************)
(* The file system calls.                                                  *)
(***************************************************************************)
\* s with each run of "/" made one "/".
RECURSIVE Collapse(_)
Collapse(s) ==
    IF Len(s) < 2 THEN s
    ELSE IF s[1] = "/" /\ s[2] = "/" THEN Collapse(Tail(s))
    ELSE <<s[1]>> \o Collapse(Tail(s))

\* The file a path under the root r names: runs of "/" count as one, and a
\* path that ends in "/" names a directory or nothing.
Node(r, p) ==
    LET c == Collapse(SubSeq(p, Len(r) + 1, Len(p)))
        trailing == Len(c) > 1 /\ c[Len(c)] = "/"
        base == IF trailing THEN SubSeq(c, 1, Len(c) - 1) ELSE c
    IN  IF base \notin FsPaths THEN NoNode
        ELSE IF trailing /\ Fs(base).kind # "dir" THEN NoNode
        ELSE Fs(base)

\* access(path, F_OK) == 0
Exists(r, p) == Node(r, p).kind # "none"

\* access(path, R_OK) == 0, and access(path, R_OK | X_OK) == 0
Readable(r, p) == Node(r, p).kind # "none" /\ Node(r, p).ok

\* stat(path, &sb) == 0 && S_ISDIR(sb.st_mode)
IsDir(r, p) == Node(r, p).kind = "dir"

NoPath == <<>>

\* indexes(path): path/index.php, else path/index.html, else NULL.
indexes(r, p) ==
    IF Exists(r, p \o IndexPhp) THEN p \o IndexPhp
    ELSE IF Exists(r, p \o IndexHtml) THEN p \o IndexHtml
    ELSE NoPath

(***************************************************************************)
(* list(): the page it renders.                                            *)
(***************************************************************************)
\* The literal pieces of list()'s templates.
Literals == {"<li><a href=\"", "\">", "</a></li>", "<html><head><title>",
             "</title></head><body><h1>", "</h1><ul>", "</ul></body></html>"}

\* Number of bytes of an element of a string: a literal piece and a run of
\* "a" count for all their bytes, a character for one.
ByteWidth(c) ==
    IF c \in Literals THEN Len(c)
    ELSE IF c \in DOMAIN RunWidth THEN RunWidth[c]
    ELSE 1

\* Number of bytes of the elements i..j of s.
RECURSIVE ByteSpan(_, _, _)
ByteSpan(s, i, j) == IF i > j THEN 0 ELSE ByteWidth(s[i]) + ByteSpan(s, i + 1, j)

ByteLen(s) == ByteSpan(s, 1, Len(s))

\* The list items for the names scandir gave, "." left out.
RECURSIVE listItems(_)
listItems(names) ==
    IF names = <<>> THEN <<>>
    ELSE IF Head(names) = <<".">> THEN listItems(Tail(names))
    ELSE <<"<li><a href=\"">> \o htmlspecialchars(Head(names)) \o <<"\">">>
         \o htmlspecialchars(Head(names)) \o <<"</a></li>">> \o listItems(Tail(names))

listBody(relative, items) ==
    <<"<html><head><title>">> \o relative \o <<"</title></head><body><h1>">>
    \o relative \o <<"</h1><ul>">> \o items \o <<"</ul></body></html>">>

(***************************************************************************)
(* The state of the process.                                               *)
(***************************************************************************)
VARIABLES
    pc,         \* where main is: "top", "accept", "request", "framed",
                \* "parsed", "list", "lookup", "interpret", "transfer";
                \* "exited" after stop(), "crashed" when killed
    root,       \* the server's root
    sfd,        \* whether the listening socket is open
    cfd,        \* the client's descriptor, -1 when there is none
    open,       \* the client descriptors the process holds open
    signaled,   \* the flag handler() sets
    stream,     \* the bytes of the connection not yet read
    spin,       \* parity of the number of reads that returned no byte
    message,    \* request()'s buffer
    length,     \* request()'s *length
    framed,     \* what request() returned for this connection
    reqExit,    \* how request() left its loop: "found" (the blank line), "read"
                \* (read failed), "alloc" (realloc failed), "full" (the message
                \* reached its largest size); "none" while it has not
    line,       \* main's request-line
    parsed,     \* what parse() did with it: "ok", "err", "crash"; "none" before
    abs_path,   \* main's abs_path array
    query,      \* main's query array
    path,       \* main's path
    type,       \* main's type
    sent,       \* the calls of respond() and error() for this connection
    cgi,        \* what interpret() did for this connection
    tx,         \* what transfer() did for this connection
    ls,         \* what list() did for this connection
    unit        \* a call of one function by itself, and what it gave

vars == <<pc, root, sfd, cfd, open, signaled, stream, spin, message, length, framed,
          reqExit, line, parsed, abs_path, query, path, type, sent, cgi, tx, ls, unit>>

NoCgi == [ran |-> FALSE, query |-> <<>>, out |-> <<>>, captured |-> FALSE]
NoTx == [ran |-> FALSE, readable |-> FALSE, opened |-> FALSE, loaded |-> FALSE,
         readErr |-> FALSE, data |-> <<>>]
NoLs == [ran |-> FALSE, accessible |-> FALSE, opened |-> FALSE]
NoUnit == [fn |-> "none", arg |-> <<>>, out |-> <<>>]

\* The state when main enters its loop: start() has opened the listening
\* socket and nothing has been read.
MainInit ==
    /\ pc = "top"
    /\ root \in RootSet
    /\ sfd = TRUE
    /\ cfd = -1
    /\ open = {}
    /\ signaled = FALSE
    /\ stream = <<>>
    /\ spin = 0
    /\ message = <<>>
    /\ length = 0
    /\ framed = FALSE
    /\ reqExit = "none"
    /\ line = <<>>
    /\ parsed = "none"
    /\ abs_path = <<>>
    /\ query \in StackGarbage
    /\ path = NoPath
    /\ type = NoType
    /\ sent = <<>>
    /\ cgi = NoCgi
    /\ tx = NoTx
    /\ ls = NoLs

Init == MainInit /\ unit = NoUnit

Running == pc \notin {"exited", "crashed"}

\* handler(SIGINT), between any two steps of the program.
Handler ==
    /\ Running
    /\ ~signaled
    /\ signaled' = TRUE
    /\ UNCHANGED <<pc, root, sfd, cfd, open, stream, spin, message, length, framed, reqExit,
                   line, parsed, abs_path, query, path, type, sent, cgi, tx, ls, unit>>

\* closeClient without the close: the descriptor stays open.
closeClientNever(fds, fd) == fds

\* close(cfd) at the top of the loop, when cfd is not -1.
closeClient(fds, fd) == IF fd # -1 THEN fds \ {fd} ELSE fds

\* LoopTop with the check for control-c made before the last client's
\* socket is closed.
LoopTopStopFirst ==
    /\ pc = "top"
    /\ path' = NoPath
    /\ message' = <<>>
    /\ length' = 0
    /\ IF signaled
       THEN pc' = "exited" /\ sfd' = FALSE /\ UNCHANGED <<open, cfd>>
       ELSE /\ pc' = "accept" /\ sfd' = sfd
            /\ open' = closeClient(open, cfd)
            /\ cfd' = -1
    /\ stream' = <<>> /\ spin' = 0 /\ framed' = FALSE /\ reqExit' = "none"
    /\ line' = <<>> /\ parsed' = "none"
    /\ abs_path' = <<>> /\ type' = NoType /\ sent' = <<>> /\ cgi' = NoCgi /\ tx' = NoTx
    /\ ls' = NoLs
    /\ UNCHANGED <<root, signaled, query, unit>>

\* The top of main's loop: free the last path and message, close the last
\* client's socket, and stop() when control-c was heard.  What is known of
\* the closed connection is forgotten with it; the query array is not
\* touched.
LoopTop ==
    /\ pc = "top"
    /\ path' = NoPath
    /\ message' = <<>>
    /\ length' = 0
    /\ open' = closeClient(open, cfd)
    /\ cfd' = -1
    /\ IF signaled
       THEN pc' = "exited" /\ sfd' = FALSE
       ELSE pc' = "accept" /\ sfd' = sfd
    /\ stream' = <<>> /\ spin' = 0 /\ framed' = FALSE /\ reqExit' = "none"
    /\ line' = <<>> /\ parsed' = "none"
    /\ abs_path' = <<>> /\ type' = NoType /\ sent' = <<>> /\ cgi' = NoCgi /\ tx' = NoTx
    /\ ls' = NoLs
    /\ UNCHANGED <<root, signaled, query, unit>>

\* The descriptor accept() returns: the lowest one free.
FreeFds == (1..MaxFds) \ open
LowestFree == CHOOSE fd \in FreeFds : \A other \in FreeFds : fd <= other

\* connected(): accept() gives a new client, whose stream is s, or fails.
Connected ==
    /\ pc = "accept"
    /\ \E ok \in BOOLEAN, s \in StreamSet :
         IF ok /\ FreeFds # {}
         THEN /\ cfd' = LowestFree
              /\ open' = open \cup {LowestFree}
              /\ stream' = s
              /\ pc' = "request"
         ELSE /\ cfd' = -1
              /\ pc' = "top"
              /\ UNCHANGED <<open, stream>>
    /\ UNCHANGED <<root, sfd, signaled, spin, message, length, framed, reqExit, line, parsed, abs_path,
                   query, path, type, sent, cgi, tx, ls, unit>>

(***************************************************************************)
(* request().                                                              *)
(***************************************************************************)
\* The loop that walks the header fields from index h on: TRUE when it gets
\* to the end of the message, FALSE when a field has no CRLF or is longer
\* than LimitRequestFieldSize.
RECURSIVE fieldsOk(_, _)
fieldsOk(m, h) ==
    IF h > Len(m) \/ m[h] = NUL THEN TRUE
    ELSE LET needle == strstr(m, h, CRLF) IN
         IF needle = 0 THEN FALSE
         ELSE IF ByteSpan(m, h, needle - 1) + 2 > LimitRequestFieldSize THEN FALSE
         ELSE fieldsOk(m, needle + 2)

\* The value of fields when the loop is over: nothing adds to it.
fieldsCounted(m) == 0

\* The checks on the trimmed message.
validMessage(m) ==
    LET needle == strstr(m, 1, CRLF) IN
    /\ needle # 0
    /\ ByteSpan(m, 1, needle - 1) + 2 <= LimitRequestLine
    /\ fieldsOk(m, needle + 2)
    /\ fieldsCounted(m) <= LimitRequestFields

\* Where main goes with what request() returned.
afterRequest(ok) == IF ok THEN "framed" ELSE "top"

\* What read(cfd, buffer, BYTES) can do: fail (-1), or store the next k
\* elements of the stream, at most BYTES bytes of it; k is 0 once the client
\* has closed its end and all it sent has been read.
RECURSIVE inBuffer(_, _, _)
inBuffer(s, i, room) ==
    IF i > Len(s) \/ ByteWidth(s[i]) > room THEN i - 1
    ELSE inBuffer(s, i + 1, room - ByteWidth(s[i]))

ReadResults ==
    IF stream = <<>> THEN {0} ELSE {-1} \cup 1..inBuffer(stream, 1, BYTES)

\* The element of m that holds the byte offset bytes before the end of m:
\* where request() starts its search for the blank line.
RECURSIVE searchFrom(_, _, _)
searchFrom(m, i, offset) ==
    IF offset <= 0 \/ i = 0 THEN i + 1 ELSE searchFrom(m, i - 1, offset - ByteWidth(m[i]))

\* One turn of request()'s loop on the message m of length len, when read
\* gives the next k elements of the stream s (or fails, k = -1) and realloc
\* fails when oom: what request() returns ("again" when it goes round its
\* loop once more), the message, its length, what is left of the stream and
\* how the loop was left.
requestTurn(m, len, s, k, oom) ==
    LET bytes == IF k < 0 THEN k ELSE ByteSpan(s, 1, k)
        grown == m \o SubSeq(s, 1, k)
        offset == IF len < 3 THEN len ELSE 3
        needle == strstr(grown, searchFrom(m, Len(m), offset), CRLFCRLF)
        trimmed == SubSeq(grown, 1, needle - 1 + 2)
        rest == SubSeq(s, k + 1, Len(s))
    IN  IF len >= LimitRequestLine + LimitRequestFields * LimitRequestFieldSize + 4
           \/ bytes < 0 \/ oom
        THEN \* invalid
             [ret |-> "false", message |-> <<>>, length |-> 0, stream |-> s,
              exit |-> IF len >= LimitRequestLine
                                     + LimitRequestFields * LimitRequestFieldSize + 4
                       THEN "full"
                       ELSE IF bytes < 0 THEN "read" ELSE "alloc"]
        ELSE IF needle = 0
        THEN [ret |-> "again", message |-> grown, length |-> len + bytes, stream |-> rest,
              exit |-> "none"]
        ELSE IF validMessage(trimmed)
        THEN [ret |-> "true", message |-> trimmed,
              length |-> len + bytes - ByteSpan(grown, needle + 2, Len(grown)),
              stream |-> rest, exit |-> "found"]
        ELSE [ret |-> "false", message |-> <<>>, length |-> 0, stream |-> rest,
              exit |-> "found"]

\* request() from the message m of length len on, when every read stores
\* as much of the stream s as its buffer takes and nothing fails: what it
\* returns and the message it leaves, "never" when it reads for ever from a
\* stream that has come to its end.
RECURSIVE requestFilling(_, _, _)
requestFilling(m, len, s) ==
    IF s = <<>> /\ len < LimitRequestLine + LimitRequestFields * LimitRequestFieldSize + 4
    THEN [ret |-> "never", message |-> <<>>]
    ELSE CHOOSE r \in {IF t.ret = "again"
                       THEN requestFilling(t.message, t.length, t.stream)
                       ELSE [ret |-> t.ret, message |-> t.message] :
                       t \in {requestTurn(m, len, s, inBuffer(s, 1, BYTES), FALSE)}} : TRUE

\* request() after the turn t of its loop, the reads that follow filling
\* the buffer.
requestRest(t) ==
    IF t.ret = "again"
    THEN requestFilling(t.message, t.length, t.stream)
    ELSE [ret |-> t.ret, message |-> t.message]

\* One turn of request()'s loop, and its return once the loop is left.
RequestRead ==
    /\ pc = "request"
    /\ \E k \in ReadResults, oom \in BOOLEAN :
         \E t \in {requestTurn(message, length, stream, k, oom)} :
         /\ message' = t.message
         /\ length' = t.length
         /\ stream' = t.stream
         /\ IF t.ret = "again"
            THEN /\ spin' = IF k = 0 THEN 1 - spin ELSE spin
                 /\ UNCHANGED <<framed, reqExit, pc>>
            ELSE /\ framed' = (t.ret = "true")
                 /\ pc' = afterRequest(t.ret = "true")
                 /\ reqExit' = t.exit
                 /\ UNCHANGED spin
    /\ UNCHANGED <<root, sfd, cfd, open, signaled, line, parsed, abs_path, query, path, type,
                   sent, cgi, tx, ls, unit>>

(***************************************************************************)
(* main, once request() has returned true.                                 *)
(***************************************************************************)
\* Extract the request-line and parse it; parse() answers a malformed line
\* itself.
Parse ==
    /\ pc = "framed"
    /\ \E io \in WriteOutcomes :
         LET needle == strstr(message, 1, CRLF) IN
         IF needle = 0
         THEN /\ sent' = error(sent, 500, io)
              /\ pc' = "top"
              /\ UNCHANGED <<line, parsed, abs_path, query>>
         ELSE LET l == strncpy(message, 1, needle - 1 + 2) IN
              \E r \in parse(l, query) :
                /\ line' = l
                /\ parsed' = r.kind
                /\ IF r.kind = "crash"
                   THEN pc' = "crashed" /\ UNCHANGED <<sent, abs_path, query>>
                   ELSE IF r.kind = "err"
                   THEN /\ sent' = error(sent, r.code, io)
                        /\ pc' = "top"
                        /\ UNCHANGED <<abs_path, query>>
                   ELSE /\ abs_path' = r.abs_path
                        /\ query' = r.query
                        /\ pc' = "parsed"
                        /\ UNCHANGED sent
    /\ UNCHANGED <<root, sfd, cfd, open, signaled, stream, spin, message, length, framed, reqExit,
                   path, type, cgi, tx, ls, unit>>

\* redirectUri without the "/" appended.
redirectUriSame(a) == a

\* The URI main redirects a directory without a final "/" to.
redirectUri(a) == a \o Slash

\* URL-decode the absolute-path, resolve it under the root, and answer what
\* is missing (404) and a directory without a final "/" (301); go on to
\* list() for a directory without an index, else to lookup().  oom: calloc
\* or malloc returns NULL.
Resolve ==
    /\ pc = "parsed"
    /\ \E io \in WriteOutcomes, oom \in BOOLEAN :
         LET p == CStr(urldecode(abs_path))
             resolved == root \o p
             index == indexes(root, resolved)
         IN  IF oom
             THEN sent' = error(sent, 500, io) /\ pc' = "top" /\ UNCHANGED path
             ELSE IF ~Exists(root, resolved)
             THEN sent' = error(sent, 404, io) /\ pc' = "top" /\ path' = resolved
             ELSE IF IsDir(root, resolved)
             THEN IF abs_path[Len(abs_path)] # "/"
                  THEN /\ sent' = redirect(sent, redirectUri(abs_path), io)
                       /\ pc' = "top" /\ path' = resolved
                  ELSE IF index # NoPath
                  THEN path' = index /\ pc' = "lookup" /\ UNCHANGED sent
                  ELSE path' = resolved /\ pc' = "list" /\ UNCHANGED sent
             ELSE path' = resolved /\ pc' = "lookup" /\ UNCHANGED sent
    /\ UNCHANGED <<root, sfd, cfd, open, signaled, stream, spin, message, length, framed, reqExit,
                   line, parsed, abs_path, query, type, cgi, tx, ls, unit>>

\* list(path).  opendirFails: opendir returns NULL; oom: htmlspecialchars
\* or realloc returns NULL for a name.
List ==
    /\ pc = "list"
    /\ \E io \in WriteOutcomes, opendirFails \in BOOLEAN, oom \in BOOLEAN :
         LET names == Node(root, path).names
             relative == SubSeq(path, Len(root) + 1, Len(path))
             body == listBody(relative, listItems(names))
         IN  IF ~Readable(root, path)
             THEN /\ sent' = error(sent, 403, io)
                  /\ ls' = [NoLs EXCEPT !.ran = TRUE]
             ELSE IF opendirFails
             THEN /\ sent' = sent
                  /\ ls' = [NoLs EXCEPT !.ran = TRUE, !.accessible = TRUE]
             ELSE /\ ls' = [ran |-> TRUE, accessible |-> TRUE, opened |-> TRUE]
                  /\ IF oom /\ \E i \in 1..Len(names) : names[i] # <<".">>
                     THEN sent' = error(sent, 500, io)
                     ELSE sent' = respond(sent, 200, ContentTypeHtml, body, ByteLen(body), io)
    /\ pc' = "top"
    /\ UNCHANGED <<root, sfd, cfd, open, signaled, stream, spin, message, length, framed, reqExit,
                   line, parsed, abs_path, query, path, type, cgi, tx, unit>>

\* Look up the MIME type of the file at path: 501 without one, else on to
\* interpret() for text/x-php and to transfer() for any other.
Lookup ==
    /\ pc = "lookup"
    /\ \E io \in WriteOutcomes, r \in lookup(path) :
         IF r.kind = "crash"
         THEN pc' = "crashed" /\ UNCHANGED <<sent, type>>
         ELSE IF r.type = NoType
         THEN sent' = error(sent, 501, io) /\ pc' = "top" /\ UNCHANGED type
         ELSE /\ type' = r.type
              /\ pc' = IF strcaseeq(TextPhp, r.type) THEN "interpret" ELSE "transfer"
              /\ UNCHANGED sent
    /\ UNCHANGED <<root, sfd, cfd, open, signaled, stream, spin, message, length, framed, reqExit,
                   line, parsed, abs_path, query, path, cgi, tx, ls, unit>>

\* The length interpret() gives respond(): length - (needle - haystack + 4),
\* in size_t.
bodyLength(len, needle) == (len - (needle - 1 + 4)) % SizeMod

\* interpret(path, query).  popenFails: popen returns NULL; out: what
\* php-cgi prints; oom, tail: see load().
Interpret ==
    /\ pc = "interpret"
    /\ \E io \in WriteOutcomes, popenFails \in BOOLEAN, out \in ScriptOutputs,
          oom \in BOOLEAN, tail \in Tails :
         IF ~Readable(root, path)
         THEN sent' = error(sent, 403, io) /\ pc' = "top" /\ UNCHANGED cgi
         ELSE IF popenFails
         THEN sent' = error(sent, 500, io) /\ pc' = "top" /\ UNCHANGED cgi
         ELSE \E r \in load(Pipe(out), oom, NUL, tail) :
                LET content == CStr(r.content)
                    needle == strstr(content, 1, CRLFCRLF)
                    headers == strncpy(content, 1, needle - 1 + 2)
                    body == SubSeq(r.content, needle + 4, Len(r.content))
                IN  /\ cgi' = [ran |-> TRUE, query |-> query, out |-> out,
                               captured |-> (r.kind = "true")]
                    /\ IF r.kind = "crash"
                       THEN pc' = "crashed" /\ UNCHANGED sent
                       ELSE IF r.kind = "false" \/ needle = 0
                       THEN sent' = error(sent, 500, io) /\ pc' = "top"
                       ELSE /\ sent' = respond(sent, 200, headers, body,
                                               bodyLength(r.length, needle), io)
                            /\ pc' = "top"
    /\ UNCHANGED <<root, sfd, cfd, open, signaled, stream, spin, message, length, framed, reqExit,
                   line, parsed, abs_path, query, path, type, tx, ls, unit>>

ContentTypePrefix == <<"C", "o", "n", "t", "e", "n", "t", "-", "T", "y", "p", "e", ":", " ">>

\* transfer(path, type).  fopenFails: fopen returns NULL; readErr: reading
\* the file fails; oom, fill: see load().
Transfer ==
    /\ pc = "transfer"
    /\ \E io \in WriteOutcomes, fopenFails \in BOOLEAN, readErr \in BOOLEAN,
          oom \in BOOLEAN, fill \in FillBytes :
         LET data == Node(root, path).data IN
         IF ~Readable(root, path)
         THEN /\ sent' = error(sent, 403, io)
              /\ tx' = [NoTx EXCEPT !.ran = TRUE, !.data = data]
         ELSE IF fopenFails
         THEN /\ sent' = error(sent, 500, io)
              /\ tx' = [NoTx EXCEPT !.ran = TRUE, !.readable = TRUE, !.data = data]
         ELSE \E r \in load(RegularFile(data, readErr), oom, fill, <<>>) :
                /\ tx' = [ran |-> TRUE, readable |-> TRUE, opened |-> TRUE,
                          loaded |-> (r.kind = "true"), readErr |-> readErr,
                          data |-> data]
                /\ IF r.kind = "true"
                   THEN sent' = respond(sent, 200, ContentTypePrefix \o type \o CRLF,
                                        SubSeq(r.content, 1, r.length), r.length, io)
                   ELSE sent' = error(sent, 500, io)
    /\ pc' = "top"
    /\ UNCHANGED <<root, sfd, cfd, open, signaled, stream, spin, message, length, framed, reqExit,
                   line, parsed, abs_path, query, path, type, cgi, ls, unit>>

\* A step of the program.
Step ==
    \/ LoopTop
    \/ Connected
    \/ RequestRead
    \/ Parse
    \/ Resolve
    \/ List
    \/ Lookup
    \/ Interpret
    \/ Transfer

Next == Step \/ Handler

Spec == Init /\ [][Next]_vars

\* The program runs on by itself and clients keep connecting; signals may
\* or may not arrive.
FairSpec == Spec /\ WF_vars(Step)

(***************************************************************************)
(* The functions by themselves: one call of respond(), error() or          *)
(* urldecode() on arguments of their parameters' types, main standing      *)
(* still.                                                                  *)
(***************************************************************************)
mainVars == <<pc, root, sfd, cfd, open, signaled, stream, spin, message, length, framed,
              reqExit, line, parsed, abs_path, query, path, type, sent, cgi, tx, ls>>

\* Status codes to call with, all of them values of an unsigned short: those
\* reason() knows, and some it does not.
KnownCodes == {200, 301, 400, 403, 404, 405, 414, 418, 500, 501, 505}
CallCodes == KnownCodes \cup {0, 100, 302, 999, 2 ^ 16 - 1}

\* Header blocks and bodies to call with.
CallHeaders == {<<>>, ContentTypeHtml, LocationPrefix \o Slash \o CRLF}
CallBodies == {<<>>, <<"h", "e", "l", "l", "o">>, <<CR, LF, "a", NUL, "b">>}

CallRespond ==
    /\ unit = NoUnit
    /\ \E code \in CallCodes, headers \in CallHeaders, body \in CallBodies,
          io \in WriteOutcomes :
         unit' = [fn |-> "respond",
                  arg |-> [code |-> code, headers |-> headers, body |-> body,
                           length |-> Len(body), io |-> io],
                  out |-> respond(<<>>, code, headers, body, Len(body), io)]
    /\ UNCHANGED mainVars

CallError ==
    /\ unit = NoUnit
    /\ \E code \in CallCodes, io \in WriteOutcomes :
         unit' = [fn |-> "error", arg |-> [code |-> code, io |-> io],
                  out |-> error(<<>>, code, io)]
    /\ UNCHANGED mainVars

\* Strings to decode: with octets in both cases, with "+", with "%" at
\* the end and before one character, and with "%" before characters that
\* are no hexadecimal digits.
CallStrings ==
    {<<>>, <<"a">>, <<"+">>, <<"%">>, <<"%", "4">>, <<"a", "%">>, <<"a", "%", "4">>,
     <<"%", "4", "1">>, <<"%", "2", "f">>, <<"%", "2", "F">>,
     <<"%", "4", "1", "%", "2", "0", "B", "+", "C">>,
     <<"/", "%", "6", "4">>, <<"%", "%", "4", "1">>, <<"%", "4", "1", "%">>,
     <<"%", "z", "z">>, <<"%", "4", "z">>, <<"1", "0", "0", "%", " ", "o", "k">>,
     <<"%", "+", "1">>, <<"a", "+", "b", "%", "7", "e">>}

CallUrldecode ==
    /\ unit = NoUnit
    /\ \E s \in CallStrings :
         unit' = [fn |-> "urldecode", arg |-> s,
                  out |-> [t |-> urldecodeFrom(s, 1), reads |-> urldecodeReads(s, 1)]]
    /\ UNCHANGED mainVars

UnitInit == MainInit /\ unit = NoUnit

UnitNext == CallRespond \/ CallError \/ CallUrldecode

UnitSpec == UnitInit /\ [][UnitNext]_vars

(***************************************************************************)
(* What the specification says of a request-line, read off the line        *)
(* itself: the method is the text before the first space, the version the  *)
(* text between the last space and the CRLF, the request-target the text   *)
(* between those two spaces; the path is the target up to its first "?"    *)
(* and the query what follows that "?".                                    *)
(***************************************************************************)
Spaces(l) == {i \in 1..Len(l) : l[i] = SP}
FirstSpaceOf(l) == CHOOSE i \in Spaces(l) : \A k \in Spaces(l) : i <= k
LastSpaceOf(l) == CHOOSE i \in Spaces(l) : \A k \in Spaces(l) : k <= i
HasCrlf(l) == Len(l) >= 2 /\ l[Len(l) - 1] = CR /\ l[Len(l)] = LF
Unterminated(l) == IF HasCrlf(l) THEN SubSeq(l, 1, Len(l) - 2) ELSE l

MethodOf(l) ==
    IF Spaces(l) = {} THEN Unterminated(l) ELSE SubSeq(l, 1, FirstSpaceOf(l) - 1)

TargetOf(l) ==
    IF Cardinality(Spaces(l)) < 2 THEN <<>>
    ELSE SubSeq(l, FirstSpaceOf(l) + 1, LastSpaceOf(l) - 1)

VersionOf(l) ==
    IF Spaces(l) = {} THEN <<>> ELSE SubSeq(Unterminated(l), LastSpaceOf(l) + 1, Len(l) - 2)

Marks(t) == {i \in 1..Len(t) : t[i] = "?"}
FirstMark(t) == CHOOSE i \in Marks(t) : \A k \in Marks(t) : i <= k
PathOf(t) == IF Marks(t) = {} THEN t ELSE SubSeq(t, 1, FirstMark(t) - 1)
QueryOf(t) == IF Marks(t) = {} THEN <<>> ELSE SubSeq(t, FirstMark(t) + 1, Len(t))

\* The status the specification gives a request-line, 0 for a line that
\* passes every check.
StatusOf(l) ==
    IF MethodOf(l) # GET THEN 405
    ELSE IF TargetOf(l) = <<>> \/ TargetOf(l)[1] # "/" THEN 501
    ELSE IF \E i \in 1..Len(TargetOf(l)) : TargetOf(l)[i] = "\"" THEN 400
    ELSE IF ~HasCrlf(l) THEN 400
    ELSE IF VersionOf(l) # HTTP11 THEN 505
    ELSE 0

\* The server is done with the client's connection and about to close it.
Closing == pc = "top" /\ cfd # -1

\* One response was sent on the connection, with this status.
Answered(code) == Len(sent) = 1 /\ sent[1].code = code

(***************************************************************************)
(* The claims.                                                             *)
(***************************************************************************)

\* C1: every connection whose header block framed successfully has exactly
\* one response written on it when the server closes it, whatever path the
\* pipeline took.
C1_ExactlyOneResponse == (Closing /\ framed) => Len(sent) = 1

\* No response is on a connection for which request() has not returned true.
NoResponseUnframed == (cfd # -1 /\ ~framed) => sent = <<>>

\* The client has closed its end and request() has read all it sent without
\* finding the blank line.
ClosedBeforeTerminator == pc = "request" /\ stream = <<>>

\* C2: every framing failure ends in the connection being closed with no
\* response on it: respond() is never called for a connection request()
\* did not return true for, and once the stream is closed before the
\* terminator the server gets to close the connection, request() having
\* returned false and nothing having been written.
C2_FramingFailureClosesSilently ==
    /\ []NoResponseUnframed
    /\ ClosedBeforeTerminator ~> (Closing /\ ~framed /\ sent = <<>>)

\* C3: with no shutdown signal pending, from every state in which a
\* connection is being processed the server gets to accept() again.
C3_AlwaysReaccepts == (cfd # -1 /\ ~signaled) ~> (pc = "accept" \/ signaled)

\* C4: at most one client descriptor is open in any state, and none is open
\* when accept() is attempted.
C4_OneConnectionAtATime ==
    /\ Cardinality(open) <= 1
    /\ open \subseteq {cfd}
    /\ pc = "accept" => open = {}

\* A request is being processed on the one open descriptor, the connection
\* before it having been closed.
C4_Witness == pc = "parsed" /\ open = {cfd} /\ cfd # -1

\* C5: for a request-target with a "?", parse gives the path before the
\* first "?" and the query after it, the query ending where the target ends.
C5_PathAndQuery ==
    (parsed = "ok" /\ Marks(TargetOf(line)) # {} /\ pc = "parsed")
        => (abs_path = PathOf(TargetOf(line)) /\ query = QueryOf(TargetOf(line)))

\* C6: parse answers a malformed line with the one status of its first
\* failing check (method 405, target 501, quote 400, CRLF 400, version 505)
\* and a line that passes all checks with no response and success.
C6_ParseStatus ==
    parsed # "none"
        => IF StatusOf(line) = 0
           THEN parsed = "ok" /\ (pc = "parsed" => sent = <<>>)
           ELSE parsed = "err" /\ pc = "top" /\ Answered(StatusOf(line))

\* The extension of a path as the specification has it: the text after the
\* last "." of the last component of the path, in lower case; none without
\* a "." there.
LastIn(s, c) ==
    LET I == {i \in 1..Len(s) : s[i] = c} IN
    IF I = {} THEN 0 ELSE CHOOSE i \in I : \A k \in I : k <= i
NameOf(p) == SubSeq(p, LastIn(p, "/") + 1, Len(p))
ExtensionOf(p) ==
    IF LastIn(NameOf(p), ".") = 0 THEN <<>>
    ELSE LowerStr(SubSeq(NameOf(p), LastIn(NameOf(p), ".") + 1, Len(NameOf(p))))
KnownExtensions ==
    {<<"c", "s", "s">>, <<"h", "t", "m", "l">>, <<"g", "i", "f">>, <<"i", "c", "o">>,
     <<"j", "p", "g">>, <<"j", "s">>, <<"p", "h", "p">>, <<"p", "n", "g">>}

\* C7: once the type of an existing non-directory path has been looked up
\* and its extension is none of the eight of the MIME table, the request has
\* ended with a 501 response, and neither transfer nor interpret has run.
C7_UnknownExtension501 ==
    (path # NoPath /\ pc # "lookup" /\ Exists(root, path) /\ ~IsDir(root, path)
       /\ ExtensionOf(path) \notin KnownExtensions)
        => (pc = "top" /\ Answered(501) /\ ~tx.ran /\ ~cgi.ran)

\* The local path the original request path resolves to.
ResolvedOf(l) == root \o CStr(urldecode(PathOf(TargetOf(l))))

\* C8: once a request whose path resolves to a directory, and whose
\* original path does not end in "/", has been resolved, it has ended with
\* one 301 response whose Location is the original path plus "/", and the
\* directory was neither searched for an index nor listed.
C8_DirectoryRedirect ==
    (parsed = "ok" /\ path # NoPath /\ IsDir(root, ResolvedOf(line))
       /\ PathOf(TargetOf(line))[Len(PathOf(TargetOf(line)))] # "/")
        => /\ pc = "top" /\ Answered(301)
           /\ sent[1].headers = LocationPrefix \o PathOf(TargetOf(line)) \o Slash \o CRLF
           /\ path = ResolvedOf(line)

\* A directory asked for by a percent-encoded path without a final "/" has
\* been answered.
C8_Witness ==
    /\ parsed = "ok" /\ path # NoPath /\ IsDir(root, ResolvedOf(line))
    /\ PathOf(TargetOf(line)) # CStr(urldecode(PathOf(TargetOf(line))))
    /\ PathOf(TargetOf(line))[Len(PathOf(TargetOf(line)))] # "/"
    /\ pc = "top" /\ Answered(301)

\* C9: once interpret has captured the interpreter's output, the request
\* has ended: with 500 when the output has no double CRLF, else with 200,
\* the header block before the first double CRLF as headers, the bytes after
\* it as body, and a length that is the number of those bytes.
C9_ScriptOutputSplit ==
    cgi.captured
        => LET k == strstr(cgi.out, 1, CRLFCRLF) IN
           /\ pc = "top"
           /\ IF k = 0
              THEN Answered(500)
              ELSE /\ Answered(200)
                   /\ sent[1].headers = SubSeq(cgi.out, 1, k + 1)
                   /\ sent[1].body = SubSeq(cgi.out, k + 4, Len(cgi.out))
                   /\ sent[1].length = Len(cgi.out) - (k + 3)

\* C10: once transfer has run, the request has ended with one response:
\* 403 for an unreadable file, 500 when the file could not be opened or
\* read or held in memory, else 200 with the type as Content-Type and the
\* whole contents of the file as body.
C10_StaticTransfer ==
    tx.ran
        => /\ pc = "top" /\ Len(sent) = 1
           /\ IF ~tx.readable THEN sent[1].code = 403
              ELSE IF ~tx.opened \/ tx.readErr \/ ~tx.loaded THEN sent[1].code = 500
              ELSE /\ sent[1].code = 200
                   /\ sent[1].headers = ContentTypePrefix \o type \o CRLF
                   /\ sent[1].body = tx.data
                   /\ sent[1].length = Len(tx.data)

\* C11: once list() has run for a directory that it may not read and search
\* or that it could not open, the request has ended with one 403 response:
\* not with a listing and not with no response.
C11_UnlistableDirectory403 ==
    (ls.ran /\ (~ls.accessible \/ ~ls.opened)) => (pc = "top" /\ Answered(403))

\* The status-lines of the specification's table of status codes.
StatusLines ==
    [c \in KnownCodes |->
        CASE c = 200 -> "HTTP/1.1 200 OK\r\n"
          [] c = 301 -> "HTTP/1.1 301 Moved Permanently\r\n"
          [] c = 400 -> "HTTP/1.1 400 Bad Request\r\n"
          [] c = 403 -> "HTTP/1.1 403 Forbidden\r\n"
          [] c = 404 -> "HTTP/1.1 404 Not Found\r\n"
          [] c = 405 -> "HTTP/1.1 405 Method Not Allowed\r\n"
          [] c = 414 -> "HTTP/1.1 414 Request-URI Too Long\r\n"
          [] c = 418 -> "HTTP/1.1 418 I'm a teapot\r\n"
          [] c = 500 -> "HTTP/1.1 500 Internal Server Error\r\n"
          [] c = 501 -> "HTTP/1.1 501 Not Implemented\r\n"
          [] c = 505 -> "HTTP/1.1 505 HTTP Version Not Supported\r\n"]

EmittedCodes == {200, 301, 400, 403, 404, 405, 500, 501, 505}

\* C13: every status code main's pipeline has passed to respond() or
\* error() for the connection has a reason phrase and is one of 200, 301,
\* 400, 403, 404, 405, 500, 501, 505: never 414, 418 or a code that is not
\* in the table.
C13_StatusCodesEmitted ==
    \A i \in 1..Len(sent) : sent[i].code \in EmittedCodes /\ sent[i].phrase # NoPhrase

\* parse() has answered a request-line with a wrong version.
C13_Witness == Closing /\ parsed = "err" /\ Len(sent) = 1 /\ sent[1].code = 505

\* The decoding the specification gives s from index i on: "%" and two
\* hexadecimal digits are the byte of that value, "+" is a space, any other
\* character is itself.
IsHex(c) == c \in {"0", "1", "2", "3", "4", "5", "6", "7", "8", "9", "a", "b", "c", "d",
                   "e", "f", "A", "B", "C", "D", "E", "F"}
RECURSIVE Decoded(_, _)
Decoded(s, i) ==
    IF i > Len(s) THEN <<>>
    ELSE IF s[i] = "%" /\ i + 2 <= Len(s) /\ IsHex(s[i + 1]) /\ IsHex(s[i + 2])
         THEN <<Chr(16 * HexVal(s[i + 1]) + HexVal(s[i + 2]))>> \o Decoded(s, i + 3)
    ELSE IF s[i] = "+" THEN <<SP>> \o Decoded(s, i + 1)
    ELSE <<s[i]>> \o Decoded(s, i + 1)

\* C14: what urldecode gives is the reference decoding of its input, for
\* every input: a "%" that two hexadecimal digits do not follow is passed
\* through with what follows it.
C14_DecodesAsReference == unit.fn = "urldecode" => unit.out.t = Decoded(unit.arg, 1)

\* C20: urldecode reads no index of its input at or beyond the input's
\* length, copies a "%" that fewer than two characters follow as it is,
\* and gives an output no longer than its input.
C20_DecoderStaysInBounds ==
    unit.fn = "urldecode"
        => /\ \A i \in unit.out.reads : i >= 1 /\ i <= Len(unit.arg)
           /\ Len(unit.out.t) <= Len(unit.arg)
           /\ \A i \in 1..Len(unit.arg) :
                 (/\ unit.arg[i] = "%" /\ i + 2 > Len(unit.arg)
                  /\ \A k \in 1..(i - 1) : unit.arg[k] # "%")
                    => (Len(unit.out.t) = Len(unit.arg) /\ unit.out.t[i] = "%")

\* A string with a "%" before its last character has been decoded.
C20_Witness ==
    /\ unit.fn = "urldecode" /\ Len(unit.arg) >= 2
    /\ unit.arg[Len(unit.arg) - 1] = "%"
    /\ unit.out.reads = 1..Len(unit.arg)

\* C15: when the client has closed its end before the blank line came, so
\* that read gives no byte, the step request() takes ends it with a framing
\* failure: it does not stay in its loop.
C15_EofEndsFraming ==
    [][(pc = "request" /\ stream = <<>> /\ signaled' = signaled)
          => (pc' = "top" /\ ~framed' /\ reqExit' # "none")]_vars

\* The largest size of a header block: the request-line, the fields and
\* the two CRLFs.
TotalLimit == LimitRequestLine + LimitRequestFields * LimitRequestFieldSize + 4

\* C16: request() returns true only for a header block of fewer bytes than
\* the request-line limit plus the fields limit times the field size limit
\* plus 4.
C16_TotalBytesLimit == framed => length < TotalLimit

\* The lines of a framed header block: where each CRLF is, where the line
\* it ends starts, and the bytes of the line with its CRLF.
CrlfAt(m) == {i \in 1..(Len(m) - 1) : m[i] = CR /\ m[i + 1] = LF}
LineStart(m, c) ==
    LET before == {i \in CrlfAt(m) : i < c} IN
    IF before = {} THEN 1 ELSE (CHOOSE i \in before : \A k \in before : k <= i) + 2
LineBytes(m, c) == ByteSpan(m, LineStart(m, c), c - 1) + 2
FieldCount(m) == Cardinality(CrlfAt(m)) - 1

\* C17: a header block request() returned true for has at most
\* LimitRequestFields header field lines.
C17_FieldCountLimit == framed => FieldCount(message) <= LimitRequestFields

\* C18: in a header block request() returned true for, the request-line
\* with its CRLF is at most LimitRequestLine bytes and every header field
\* line with its CRLF is at most LimitRequestFieldSize bytes.
C18_LineSizeLimits ==
    framed => \A c \in CrlfAt(message) :
                 LineBytes(message, c) <= IF LineStart(message, c) = 1
                                          THEN LimitRequestLine
                                          ELSE LimitRequestFieldSize

\* C19: for a request-target without a "?", the query interpret() was given
\* is empty: it holds nothing of an earlier connection's request and
\* nothing else that is not in this connection's request-line.
C19_QueryOfThisConnection ==
    (cgi.ran /\ Marks(TargetOf(line)) = {}) => cgi.query = <<>>

\* C21: no connection gets more than one response: once respond() or
\* error() has been called for a connection, from main or from inside
\* parse, list, interpret or transfer, main is on its way to the top of its
\* loop, where the connection is closed, and no second call is made.
C21_AtMostOneResponse ==
    /\ Len(sent) <= 1
    /\ sent # <<>> => pc = "top"

\* interpret() has answered 500 itself and the connection is about to be
\* closed with that one response.
C21_Witness ==
    /\ Closing
    /\ cgi.ran
    /\ Len(sent) = 1
    /\ sent[1].code = 500
    /\ sent[1].wrote = AllWritten

\* C22: for every request-line with the method GET that request() can
\* deliver, a line with exactly one space included, the length parse
\* computes for the request-target (the last space minus the first space
\* minus 1) is not negative, and parse ends with a parsed request or with
\* one error response.
C22_ParseStaysInBuffers ==
    (parsed # "none" /\ strchr(line, SP) # 0 /\ strncpy(line, 1, strchr(line, SP) - 1) = GET)
        => /\ strrchr(line, SP) - strchr(line, SP) - 1 >= 0
           /\ parsed \in {"ok", "err"}
           /\ parsed = "err" => (pc = "top" /\ Len(sent) = 1)

\* C23: lookup is total over the paths that reach it: for an existing file,
\* one without any "." in its path included, it returns a type or none, and
\* the process is not killed in it with the request unanswered.
C23_LookupTotal ==
    /\ (pc = "lookup" /\ Exists(root, path) /\ ~IsDir(root, path))
           => \A r \in lookup(path) : r.kind = "ok"
    /\ ~(pc = "crashed" /\ parsed = "ok" /\ ~cgi.ran /\ ~tx.ran)

\* The longest stream, in elements, whose chunkings are compared.
MaxStreamLen == 64

\* A byte stream under the limits: no more lines than a request-line,
\* LimitRequestFields fields and the blank line, fewer bytes than the
\* largest header block, and no line longer than its limit.
UnderLimits(s) ==
    /\ Cardinality(CrlfAt(s)) <= LimitRequestFields + 2
    /\ ByteLen(s) < TotalLimit
    /\ \A c \in CrlfAt(s) :
          LineBytes(s, c) <= IF LineStart(s, c) = 1 THEN LimitRequestLine
                             ELSE LimitRequestFieldSize

\* C24: what request() gives depends on the bytes of the stream only, not
\* on how read() cuts them: for a stream under the limits (of at most
\* MaxStreamLen elements), of which some chunks have been read, whatever the next read stores, request() returns
\* the same and leaves the same header block as when every read from the
\* first on fills the buffer; so a blank line cut by the end of a chunk is
\* found.
C24_ChunkingIndependent ==
    (pc = "request" /\ Len(message \o stream) <= MaxStreamLen
       /\ UnderLimits(message \o stream))
        => \A k \in 1..inBuffer(stream, 1, BYTES) :
              requestRest(requestTurn(message, length, stream, k, FALSE))
                  = requestFilling(<<>>, 0, message \o stream)

\* C25: the signal only sets the flag, and the flag is looked at only at
\* the top of main's loop, after the last client's socket has been closed:
\* when stop() has run, control-c was heard and no client descriptor is open.
C25_StopAfterClose ==
    /\ [](pc = "exited" => (signaled /\ open = {} /\ cfd = -1))
    /\ [][signaled' # signaled => (signaled' /\ UNCHANGED <<pc, sfd, cfd, open, sent>>)]_vars
    /\ [][(pc' = "exited" /\ pc # "exited") => (pc = "top" /\ signaled)]_vars

\* stop() has run after a connection was served whose request had a query,
\* and no descriptor is left open.
C25_Witness ==
    /\ pc = "exited"
    /\ ~sfd
    /\ open = {}
    /\ Len(query) > 1

====
